---- MODULE Spec2Model ----
(***************************************************************************)
(* Road-network growth loop of citygen (src/src/main.rs, App::start).      *)
(*                                                                         *)
(* Numbers.  The program computes in f32.  Every angle the model uses is a *)
(* multiple of 45 degrees, so every coordinate is of the form              *)
(* (a + b*sqrt(2))/2 in units of 0.5 (the seed road's length).  Such a     *)
(* number is kept exactly as the pair <<a, b>>; rounding is not modelled.  *)
(* Degrees are integers; radians are integers counting multiples of pi/4.  *)
(***************************************************************************)
EXTENDS Integers, Naturals, Sequences, FiniteSets

\* ------------------------------------------------------------------ bounds
\* max_lifetime ranges over 0..MaxLifetimeCap
MaxLifetimeCap == 2
\* timer_increment ranges over 1..TimerIncrementCap
TimerIncrementCap == 2
\* how many times the generator is run again after a completed run (SpecTwice)
MaxReruns == 1
\* the arguments of a single call of intersects or new_segment have whole
\* coordinates in 0..GridMax
GridMax == 2
\* and a road of a single call of new_segment has a length in 0..MaxLength
MaxLength == 2

\* ------------------------------------------------------- exact arithmetic
\* <<a, b>> is a + b*sqrt(2) over a fixed positive denominator.
ZZero == <<0, 0>>

ZAdd(x, y) == <<x[1] + y[1], x[2] + y[2]>>

ZSub(x, y) == <<x[1] - y[1], x[2] - y[2]>>

ZScale(n, x) == <<n * x[1], n * x[2]>>

\* (a + b r)(c + d r) with r*r = 2; the denominator squares and stays positive
ZMul(x, y) == <<x[1] * y[1] + 2 * x[2] * y[2], x[1] * y[2] + x[2] * y[1]>>

\* sign of a + b*sqrt(2): -1, 0 or 1
ZSign(x) ==
    LET a == x[1]
        b == x[2]
    IN  IF a = 0 /\ b = 0 THEN 0
        ELSE IF a >= 0 /\ b >= 0 THEN 1
        ELSE IF a <= 0 /\ b <= 0 THEN -1
        ELSE IF a > 0 THEN (IF a * a > 2 * b * b THEN 1 ELSE -1)
        ELSE (IF 2 * b * b > a * a THEN 1 ELSE -1)

\* x < 0.0
ZNeg(x) == ZSign(x) < 0

\* ------------------------------------------------------------- vectors
Vec2(x, y) == [x |-> x, y |-> y]

Vec3(x, y, z) == [x |-> x, y |-> y, z |-> z]

Vec2Zero == Vec2(ZZero, ZZero)

Vec3Zero == Vec3(ZZero, ZZero, ZZero)

Vec3Sub(a, b) == Vec3(ZSub(a.x, b.x), ZSub(a.y, b.y), ZSub(a.z, b.z))

\* the y component of the cross product a x b
CrossY(a, b) == ZSub(ZMul(a.z, b.x), ZMul(a.x, b.z))

Line(start, end) == [start |-> start, end |-> end]

\* sin of k*pi/4, as <<a, b>> = (a + b*sqrt(2))/2
Sin(k) ==
    LET m == k % 8
    IN  CASE m = 0 -> <<0, 0>>
          [] m = 1 -> <<0, 1>>
          [] m = 2 -> <<2, 0>>
          [] m = 3 -> <<0, 1>>
          [] m = 4 -> <<0, 0>>
          [] m = 5 -> <<0, -1>>
          [] m = 6 -> <<-2, 0>>
          [] m = 7 -> <<0, -1>>

\* cos t = sin (t + pi/2)
Cos(k) == Sin(k + 2)

\* angle * PI / 180.0, for a multiple of 45 degrees, in multiples of pi/4
ToRadians(deg) == deg \div 45

\* ---------------------------------------------------------- intersects
\* the second pair of cross products forgotten
IntersectsOneSided(a, b) ==
    \E o1 \in {CrossY(Vec3Sub(b.start, a.start), Vec3Sub(a.end, a.start))},
       o2 \in {CrossY(Vec3Sub(b.end, a.start), Vec3Sub(a.end, a.start))} :
        ZNeg(ZMul(o1, o2))

\* <= 0.0 in place of < 0.0
IntersectsNonStrict(a, b) ==
    /\ \E o1 \in {CrossY(Vec3Sub(b.start, a.start), Vec3Sub(a.end, a.start))},
          o2 \in {CrossY(Vec3Sub(b.end, a.start), Vec3Sub(a.end, a.start))} :
            ZSign(ZMul(o1, o2)) <= 0
    /\ \E t1 \in {CrossY(Vec3Sub(a.start, b.start), Vec3Sub(b.end, b.start))},
          t2 \in {CrossY(Vec3Sub(a.end, b.start), Vec3Sub(b.end, b.start))} :
            ZSign(ZMul(t1, t2)) <= 0

\* (each cross product is bound once, as the source's let bindings are)
intersects(a, b) ==
    /\ \E o1 \in {CrossY(Vec3Sub(b.start, a.start), Vec3Sub(a.end, a.start))},
          o2 \in {CrossY(Vec3Sub(b.end, a.start), Vec3Sub(a.end, a.start))} :
            ZNeg(ZMul(o1, o2))
    /\ \E t1 \in {CrossY(Vec3Sub(a.start, b.start), Vec3Sub(b.end, b.start))},
          t2 \in {CrossY(Vec3Sub(a.end, b.start), Vec3Sub(b.end, b.start))} :
            ZNeg(ZMul(t1, t2))

\* ------------------------------------------------------------ Road, Query
Road(angle, length) == [angle |-> angle, length |-> length]

Query(origin, prev_angle) == [origin |-> origin, prev_angle |-> prev_angle]

\* the direction taken as (cos t, sin t)
RoadEndCosSin(road, query) ==
    LET angle == ToRadians(road.angle)
        direction == Vec2(Cos(query.prev_angle + angle),
                          Sin(query.prev_angle + angle))
    IN  Vec2(ZAdd(query.origin.x, ZScale(road.length, direction.x)),
             ZAdd(query.origin.y, ZScale(road.length, direction.y)))

\* Road::end; the direction (sin t, cos t) has length 1, so norm() keeps it
RoadEnd(road, query) ==
    LET angle == ToRadians(road.angle)
        direction == Vec2(Sin(query.prev_angle + angle),
                          Cos(query.prev_angle + angle))
    IN  Vec2(ZAdd(query.origin.x, ZScale(road.length, direction.x)),
             ZAdd(query.origin.y, ZScale(road.length, direction.y)))

\* the segment built from its end to its start
NewSegmentReversed(road, query) ==
    LET start == query.origin
        end == RoadEnd(road, query)
    IN  Line(Vec3(end.x, ZZero, end.y), Vec3(start.x, ZZero, start.y))

new_segment(road, query) ==
    LET start == query.origin
        end == RoadEnd(road, query)
    IN  Line(Vec3(start.x, ZZero, start.y), Vec3(end.x, ZZero, end.y))

RoadQuery(timer, lifetime, road, query, valid) ==
    [timer |-> timer, lifetime |-> lifetime, road |-> road,
     query |-> query, valid |-> valid]

\* usize::cmp
UCmp(m, n) == IF m < n THEN "Less" ELSE IF m = n THEN "Equal" ELSE "Greater"

\* the comparison without the reversal: self.timer.cmp(&other.timer)
CmpForward(self, other) == UCmp(self.timer, other.timer)

\* impl Ord for RoadQuery: other.timer.cmp(&self.timer)
Cmp(self, other) == UCmp(other.timer, self.timer)

\* impl PartialEq for RoadQuery
Eq(self, other) == self.timer = other.timer

\* ------------------------------------------------------------- the state
VARIABLES
    q,        \* App.q: the pending queries, in insertion order
    lines,    \* App.lines: the accepted network
    pc,       \* "loop": at the head of the while loop; "done": after it
    rq,       \* the query popped by the latest iteration
    outcome,  \* what the latest iteration did with rq
    popped,   \* how many queries have been popped
    seed,     \* initial_query
    cfg,      \* the growth policy's configuration
    tie,      \* how this build's BinaryHeap orders queries that compare Equal
    runs,     \* the networks of the completed runs before this one
    accepted, \* the queries whose segments are in lines, in the same order
    isect,    \* a single call of intersects: its arguments and its result
    mat       \* a single call of new_segment: its arguments and its result

vars == <<q, lines, pc, rq, outcome, popped, seed, cfg, tie, runs,
          accepted, isect, mat>>

\* start's initial_query has timer 0, lifetime 0, origin zero and prev_angle 0.
\* Its road <<angle, length>> and its valid flag are the generator's input:
\* the road of the source (45 degrees, length 0.5), a road straight ahead of
\* length 1.0, and a degenerate road of length 0
SeedRoads == {<<45, 1>>, <<0, 2>>, <<45, 0>>}

SeedQueries ==
    { RoadQuery(0, 0, Road(al[1], al[2]), Query(Vec2Zero, 0), v) :
        al \in SeedRoads, v \in BOOLEAN }

\* branch_angles: degrees of left/right divergence from straight ahead
BranchAngles == {<<-45, 45>>, <<-90, 90>>, <<-135, 135>>}

Configs ==
    [max_lifetime : 0..MaxLifetimeCap,
     branch_angles : BranchAngles,
     timer_increment : 1..TimerIncrementCap]

\* BinaryHeap leaves the order of elements that compare Equal unspecified:
\* a build returns the earliest or the latest pushed of them
TieRules == {"first", "last"}

\* no call of intersects or new_segment is being looked at
NoCall == [called |-> FALSE]

NoQuery == [timer |-> 0, lifetime |-> 0, road |-> Road(0, 0),
            query |-> Query(Vec2Zero, 0), valid |-> FALSE]

\* ------------------------------------------------------------ BinaryHeap
\* a loop that stops one query early: while self.q.len() > 1
IsEmptyOffByOne(queue) == Len(queue) <= 1

IsEmpty(queue) == Len(queue) = 0

HeapPush(queue, e) == Append(queue, e)

\* queue[i] is a greatest element under Ord: no element is greater
IsGreatest(queue, i) ==
    \A j \in DOMAIN queue : Cmp(queue[i], queue[j]) # "Less"

\* the position pop() takes: the first or the last of the greatest elements
PopIndex(queue, rule) ==
    IF rule = "first"
    THEN CHOOSE i \in DOMAIN queue :
            /\ IsGreatest(queue, i)
            /\ \A j \in 1..(i - 1) : ~IsGreatest(queue, j)
    ELSE CHOOSE i \in DOMAIN queue :
            /\ IsGreatest(queue, i)
            /\ \A j \in (i + 1)..Len(queue) : ~IsGreatest(queue, j)

\* the queue that pop() leaves
HeapRest(queue, i) ==
    [k \in 1..(Len(queue) - 1) |-> IF k < i THEN queue[k] ELSE queue[k + 1]]

\* ------------------------------------------- the constraint check, growth
\* check_local and gen_global are called by start and defined nowhere in the
\* source; they follow the design document (constraint checker, expander,
\* configuration options).
\* Reject an invalid, over-age or degenerate query, and one whose segment
\* crosses a segment of the network
check_local(r, net) ==
    /\ r.valid
    /\ r.lifetime <= cfg.max_lifetime
    /\ r.road.length > 0
    /\ \E seg \in {new_segment(r.road, r.query)} :
          \A i \in DOMAIN net : ~intersects(seg, net[i])

\* Three follow-on queries from the end of the accepted road: straight on,
\* and the two branches; length_falloff is 1, which keeps lengths whole
gen_global(timer, lifetime, road, query) ==
    LET end == RoadEnd(road, query)
        heading == query.prev_angle + ToRadians(road.angle)
        child(angle) ==
            RoadQuery(timer + cfg.timer_increment, lifetime + 1,
                      Road(angle, road.length), Query(end, heading), TRUE)
    IN  <<child(0), child(cfg.branch_angles[1]), child(cfg.branch_angles[2])>>

\* ------------------------------------------------------- the growth loop
\* the segment pushed before the check: every popped query adds a segment
LinesAfterAppendFirst(ok, r, net) ==
    Append(net, new_segment(r.road, r.query))

\* the segment inserted at the front of the network
LinesAfterPrepend(ok, r, net) ==
    IF ~ok THEN net
    ELSE <<new_segment(r.road, r.query)>> \o net

\* the queries behind lines after the iteration that popped r
AcceptedAfter(ok, r, acc) == IF ~ok THEN acc ELSE Append(acc, r)

\* lines after the iteration that popped r; ok is check_local's answer
LinesAfter(ok, r, net) ==
    IF ~ok THEN net
    ELSE Append(net, new_segment(r.road, r.query))

\* the third push forgotten
QueueAfterTwo(ok, r, rest) ==
    IF ~ok THEN rest
    ELSE LET abc == gen_global(r.timer, r.lifetime, r.road, r.query)
         IN  HeapPush(HeapPush(rest, abc[1]), abc[2])

\* the children pushed without looking at the check
QueueAfterAlways(ok, r, rest) ==
    LET abc == gen_global(r.timer, r.lifetime, r.road, r.query)
    IN  HeapPush(HeapPush(HeapPush(rest, abc[1]), abc[2]), abc[3])

\* q after the iteration that popped r and left rest
QueueAfter(ok, r, rest) ==
    IF ~ok THEN rest
    ELSE LET abc == gen_global(r.timer, r.lifetime, r.road, r.query)
         IN  HeapPush(HeapPush(HeapPush(rest, abc[1]), abc[2]), abc[3])

Init ==
    /\ seed \in SeedQueries
    /\ cfg \in Configs
    /\ tie \in TieRules
    /\ q = HeapPush(<<>>, seed)
    /\ lines = <<>>
    /\ pc = "loop"
    /\ rq = NoQuery
    /\ outcome = "none"
    /\ popped = 0
    /\ runs = <<>>
    /\ accepted = <<>>
    /\ isect = NoCall
    /\ mat = NoCall

\* one iteration of the while loop
Iterate ==
    /\ pc = "loop"
    /\ ~IsEmpty(q)
    /\ \E i \in {PopIndex(q, tie)} :
       \E r \in {q[i]} :
       \E ok \in {check_local(r, lines)} :
          /\ rq' = r
          /\ lines' = LinesAfter(ok, r, lines)
          /\ q' = QueueAfter(ok, r, HeapRest(q, i))
          /\ outcome' = IF ok THEN "accepted" ELSE "rejected"
          /\ accepted' = AcceptedAfter(ok, r, accepted)
    /\ popped' = popped + 1
    /\ UNCHANGED <<pc, seed, cfg, tie, runs, isect, mat>>

\* the while condition fails
Exit ==
    /\ pc = "loop"
    /\ IsEmpty(q)
    /\ pc' = "done"
    /\ UNCHANGED <<q, lines, rq, outcome, popped, seed, cfg, tie, runs,
                   accepted, isect, mat>>

\* the generator is run again on the same seed and configuration
Rerun ==
    /\ pc = "done"
    /\ Len(runs) < MaxReruns
    /\ runs' = Append(runs, lines)
    /\ tie' \in TieRules
    /\ q' = HeapPush(<<>>, seed)
    /\ lines' = <<>>
    /\ pc' = "loop"
    /\ rq' = NoQuery
    /\ outcome' = "none"
    /\ popped' = 0
    /\ accepted' = <<>>
    /\ UNCHANGED <<seed, cfg, isect, mat>>

Next == Iterate \/ Exit

Spec == Init /\ [][Next]_vars

\* the loop is the only thing start runs: an enabled iteration is taken
FairSpec == Spec /\ WF_vars(Next)

NextTwice == Iterate \/ Exit \/ Rerun

SpecTwice == Init /\ [][NextTwice]_vars

\* ------------------------------------- single calls of the pure functions
\* the growth loop is not running
Idle ==
    /\ q = <<>> /\ lines = <<>> /\ accepted = <<>> /\ runs = <<>>
    /\ pc = "idle" /\ rq = NoQuery /\ outcome = "none" /\ popped = 0
    /\ seed = NoQuery /\ tie = "first"
    /\ cfg = [max_lifetime |-> 0, branch_angles |-> <<-90, 90>>,
              timer_increment |-> 1]

GridPoints == { Vec3(<<x, 0>>, ZZero, <<z, 0>>) : x, z \in 0..GridMax }

GridSegments == { Line(s, e) : s, e \in GridPoints }

InitIntersects ==
    /\ Idle
    /\ isect \in [a : GridSegments, b : GridSegments,
                  called : {FALSE}, result : {FALSE}]
    /\ mat = NoCall

\* intersects(a, b) is called
CallIntersects ==
    /\ ~isect.called
    /\ isect' = [isect EXCEPT !.called = TRUE,
                              !.result = intersects(isect.a, isect.b)]
    /\ UNCHANGED <<q, lines, pc, rq, outcome, popped, seed, cfg, tie, runs,
                   accepted, mat>>

IntersectsSpec == InitIntersects /\ [][CallIntersects]_vars

\* roads at every multiple of 45 degrees
GridRoads ==
    { Road(45 * k, l) : k \in -3..4, l \in 0..MaxLength }

GridQueries ==
    { Query(Vec2(<<x, 0>>, <<y, 0>>), t) : x, y \in 0..GridMax, t \in 0..7 }

InitSegment ==
    /\ Idle
    /\ mat \in [road : GridRoads, query : GridQueries,
                called : {FALSE}, result : {Line(Vec3Zero, Vec3Zero)}]
    /\ isect = NoCall

\* new_segment(road, query) is called
CallSegment ==
    /\ ~mat.called
    /\ mat' = [mat EXCEPT !.called = TRUE,
                          !.result = new_segment(mat.road, mat.query)]
    /\ UNCHANGED <<q, lines, pc, rq, outcome, popped, seed, cfg, tie, runs,
                   accepted, isect>>

SegmentSpec == InitSegment /\ [][CallSegment]_vars

\* ------------------------------------------------------------ properties
\* an iteration of the loop has just run
Iterated == popped' # popped

\* the popped query rq' was taken out of q
Dequeued(rest) == \E i \in DOMAIN q : q[i] = rq' /\ rest = HeapRest(q, i)

\* the segment of r crosses a segment of net
Crosses(r, net) ==
    \E seg \in {new_segment(r.road, r.query)} :
        \E i \in DOMAIN net : intersects(seg, net[i])

\* C1: in every state of the growth loop no two distinct segments of the
\* accepted network intersect; the candidate is tested before it is appended.
C1_NoCrossing ==
    \A i, j \in DOMAIN lines : i # j => ~intersects(lines[i], lines[j])

\* a valid, young enough candidate was rejected because it crosses the network
C1_Witness ==
    /\ outcome = "rejected"
    /\ rq.valid /\ rq.lifetime <= cfg.max_lifetime /\ rq.road.length > 0
    /\ Len(lines) >= 2
    /\ Crosses(rq, lines)

\* C2: the query an iteration pops has a timer less than or equal to the timer
\* of every query pending in the queue, whatever their lifetime or valid.
C2_MinTimer ==
    [][Iterated => \A i \in DOMAIN q : rq'.timer <= q[i].timer]_vars

\* a pop out of a queue holding queries of equal and of greater timers
C2_Witness ==
    /\ outcome # "none"
    /\ \E i \in DOMAIN q : q[i].timer = rq.timer
    /\ \E i \in DOMAIN q : q[i].timer > rq.timer /\ q[i].lifetime > rq.lifetime

\* C3: the growth loop eventually reaches an empty queue and stops.
C3_Termination == <>(pc = "done" /\ q = <<>>)

\* a run that grew a network of several generations has stopped
C3_Witness ==
    /\ pc = "done" /\ q = <<>>
    /\ cfg.max_lifetime >= 1
    /\ Len(lines) >= 4

C5_AppendOnly ==
    [][IF Iterated
       THEN \/ outcome' = "rejected" /\ lines' = lines
            \/ /\ outcome' = "accepted"
               /\ lines' = Append(lines, new_segment(rq'.road, rq'.query))
       ELSE lines' = lines]_vars

\* the network holds several segments and the latest query was rejected
C5_Witness == Len(lines) >= 3 /\ outcome = "rejected" /\ pc = "loop"

\* C6: an acceptance pushes exactly 3 child queries behind the pending ones,
\* each with the parent's lifetime plus one and a timer greater than the
\* parent's.
C6_BranchLineage ==
    [][(Iterated /\ outcome' = "accepted") =>
         /\ Len(q') = Len(q) + 2
         /\ Dequeued(SubSeq(q', 1, Len(q) - 1))
         /\ \A k \in Len(q)..Len(q') :
               /\ q'[k].lifetime = rq'.lifetime + 1
               /\ q'[k].timer > rq'.timer]_vars

\* a child query was accepted and its three children are pending
C6_Witness ==
    /\ outcome = "accepted"
    /\ rq.lifetime >= 1
    /\ Len(q) >= 5

\* C7: a popped query that fails the constraint check, or whose lifetime
\* exceeds max_lifetime, appends no segment and pushes no children: it only
\* leaves the queue.
C7_RejectionNoEffect ==
    [][(Iterated /\ (~check_local(rq', lines)
                       \/ rq'.lifetime > cfg.max_lifetime)) =>
         /\ lines' = lines
         /\ Dequeued(q')
         /\ UNCHANGED <<pc, seed, cfg>>]_vars

\* an over-age query was rejected while other queries were pending
C7_Witness ==
    /\ outcome = "rejected"
    /\ rq.lifetime > cfg.max_lifetime
    /\ q # <<>>
    /\ lines # <<>>

\* C8: with max_lifetime = 0 the network holds at most one segment, and that
\* one is the seed query's.
C8_DepthCutoff ==
    cfg.max_lifetime = 0 =>
        /\ Len(lines) <= 1
        /\ lines # <<>> => lines = <<new_segment(seed.road, seed.query)>>

\* a finished run with max_lifetime = 0 whose seed was accepted
C8_Witness ==
    /\ cfg.max_lifetime = 0
    /\ pc = "done"
    /\ popped = 4
    /\ Len(lines) = 1

\* C9 as stated: the queue holds fewer than 3^max_lifetime queries.
C9_QueueBoundStrict == Len(q) < 3 ^ cfg.max_lifetime

\* C9 amended: the queue never holds more than 3^(max_lifetime + 1) queries.
C9_QueueBound == Len(q) <= 3 ^ (cfg.max_lifetime + 1)

\* the bound is met: all of the oldest generation's children are pending
C9_Witness ==
    /\ cfg.max_lifetime >= 1
    /\ Len(q) = 3 ^ (cfg.max_lifetime + 1)

\* C10: a popped query with valid = false adds no segment and no children,
\* and is dequeued.
C10_InvalidRejected ==
    [][(Iterated /\ ~rq'.valid) =>
         /\ outcome' = "rejected"
         /\ lines' = lines
         /\ Len(q') = Len(q) - 1
         /\ Dequeued(q')]_vars

\* an invalid query of sound geometry was popped and dropped
C10_Witness ==
    /\ outcome = "rejected"
    /\ ~rq.valid
    /\ rq.road.length > 0
    /\ popped = 1
    /\ q = <<>> /\ lines = <<>>

\* C11: a seed that the constraint check rejects ends the loop after that one
\* iteration, with an empty queue and an empty network.
C11_RejectedSeed ==
    ~check_local(seed, <<>>) =>
        /\ lines = <<>>
        /\ popped <= 1
        /\ (popped = 1 => (q = <<>> /\ rq = seed /\ outcome = "rejected"))
        /\ (pc = "done" => popped = 1)

\* the loop has stopped after rejecting a valid seed of length 0
C11_Witness ==
    /\ pc = "done"
    /\ seed.valid /\ seed.road.length = 0
    /\ popped = 1 /\ outcome = "rejected"
    /\ q = <<>> /\ lines = <<>>

\* the plane's point (x, y) behind a grid point (x, 0, y)
PX(p) == p.x[1]

PY(p) == p.z[1]

\* twice the signed area of the triangle p, r, s: its sign says on which side
\* of the line through p and r the point s lies, 0 when on it
Side(p, r, s) ==
    (PX(r) - PX(p)) * (PY(s) - PY(p)) - (PY(r) - PY(p)) * (PX(s) - PX(p))

\* the end points of m lie strictly on opposite sides of the line through l
Opposite(l, m) ==
    Side(l.start, l.end, m.start) * Side(l.start, l.end, m.end) < 0

\* an end point of m lies on the line through l
OnLine(l, m) ==
    Side(l.start, l.end, m.start) = 0 \/ Side(l.start, l.end, m.end) = 0

\* C12: intersects(A, B) is true exactly when B's end points lie strictly on
\* opposite sides of the line through A and A's end points lie strictly on
\* opposite sides of the line through B.
C12_IntersectsCorrect ==
    isect.called =>
        (isect.result <=> (Opposite(isect.a, isect.b)
                             /\ Opposite(isect.b, isect.a)))

\* A = (0,0)-(2,2) and B = (0,2)-(2,0) are reported as intersecting
C12_Witness ==
    /\ isect.called
    /\ <<PX(isect.a.start), PY(isect.a.start)>> = <<0, 0>>
    /\ <<PX(isect.a.end), PY(isect.a.end)>> = <<2, 2>>
    /\ <<PX(isect.b.start), PY(isect.b.start)>> = <<0, 2>>
    /\ <<PX(isect.b.end), PY(isect.b.end)>> = <<2, 0>>
    /\ isect.result

\* C13: two segments that share an end point, or where an end point of one
\* lies on the line through the other, are reported as not intersecting.
C13_TouchingPolicy ==
    (/\ isect.called
     /\ \/ isect.a.start \in {isect.b.start, isect.b.end}
        \/ isect.a.end \in {isect.b.start, isect.b.end}
        \/ OnLine(isect.a, isect.b)
        \/ OnLine(isect.b, isect.a))
    => ~isect.result

\* A = (0,0)-(1,0) and B = (1,0)-(1,1), which share (1,0), do not intersect
C13_Witness ==
    /\ isect.called
    /\ <<PX(isect.a.start), PY(isect.a.start)>> = <<0, 0>>
    /\ <<PX(isect.a.end), PY(isect.a.end)>> = <<1, 0>>
    /\ isect.b.start = isect.a.end
    /\ <<PX(isect.b.end), PY(isect.b.end)>> = <<1, 1>>
    /\ ~isect.result

\* C14: every query pushed (the seed and three per accepted segment) is popped
\* exactly once and is not changed while pending: pending + popped is always
\* 1 + 3 * |lines|, an iteration takes one query out and leaves the others as
\* they were, and when the loop has ended popped = 1 + 3 * |lines|.
C14_ConsumedOnce ==
    /\ [](/\ Len(q) + popped = 1 + 3 * Len(lines)
          /\ pc = "done" => (q = <<>> /\ popped = 1 + 3 * Len(lines)))
    /\ [][IF Iterated
          THEN /\ popped' = popped + 1
               /\ Dequeued(SubSeq(q', 1, Len(q) - 1))
          ELSE q' = q /\ popped' = popped]_vars

\* the loop has ended after popping the queries of three generations
C14_Witness ==
    /\ pc = "done"
    /\ Len(lines) >= 5
    /\ popped = 1 + 3 * Len(lines)
    /\ cfg.max_lifetime = 2

\* C15: the timers of the popped queries never decrease, every pending query
\* has a timer at least that of the latest popped query, and the segments of
\* lines are in non-decreasing order of their queries' timers.
C15_MonotoneTimers ==
    /\ [](/\ outcome # "none" => \A i \in DOMAIN q : rq.timer <= q[i].timer
          /\ \A i, j \in DOMAIN accepted :
                i <= j => accepted[i].timer <= accepted[j].timer)
    /\ [][(Iterated /\ outcome # "none") => rq.timer <= rq'.timer]_vars

\* queries of three different timers were accepted, and the latest query
\* popped is older than a pending one
C15_Witness ==
    /\ Len(accepted) >= 3
    /\ accepted[1].timer < accepted[2].timer
    /\ accepted[2].timer < accepted[Len(accepted)].timer
    /\ \E i \in DOMAIN q : rq.timer < q[i].timer

\* C16: every segment of the network starts at its query's origin, and every
\* segment but the first starts at the end of an earlier segment.
C16_Connected ==
    /\ Len(accepted) = Len(lines)
    /\ \A k \in DOMAIN lines :
          /\ lines[k].start = Vec3(accepted[k].query.origin.x, ZZero,
                                   accepted[k].query.origin.y)
          /\ k > 1 => \E j \in 1..(k - 1) : lines[k].start = lines[j].end

\* a segment of the third generation is in the network
C16_Witness ==
    /\ Len(lines) >= 5
    /\ accepted[Len(lines)].lifetime = 2
    /\ lines[Len(lines)].start # lines[1].end

\* (sin t, cos t) for t = 0, pi/4, ..., 7 pi/4, each number as <<a, b>> for
\* (a + b*sqrt(2))/2
UnitDirection ==
    << <<<<0, 0>>, <<2, 0>>>>,   <<<<0, 1>>, <<0, 1>>>>,
       <<<<2, 0>>, <<0, 0>>>>,   <<<<0, 1>>, <<0, -1>>>>,
       <<<<0, 0>>, <<-2, 0>>>>,  <<<<0, -1>>, <<0, -1>>>>,
       <<<<-2, 0>>, <<0, 0>>>>,  <<<<0, -1>>, <<0, 1>>>> >>

\* C17: the materialized segment runs from (x, 0, y) for the origin (x, y) to
\* the embedding of origin + length * (sin t, cos t), t = prev_angle + angle
\* with angle converted from degrees to radians.
C17_Materialization ==
    mat.called =>
        LET o == mat.query.origin
            l == mat.road.length
            t == mat.query.prev_angle + mat.road.angle \div 45
            d == UnitDirection[(t % 8) + 1]
        IN  /\ mat.result.start = Vec3(o.x, ZZero, o.y)
            /\ mat.result.end =
                  Vec3(<<o.x[1] + l * d[1][1], o.x[2] + l * d[1][2]>>, ZZero,
                       <<o.y[1] + l * d[2][1], o.y[2] + l * d[2][2]>>)

\* origin (0,0), prev_angle 0, angle 0 and length 1.0 give the end (0, 0, 1)
C17_Witness ==
    /\ mat.called
    /\ mat.query = Query(Vec2Zero, 0)
    /\ mat.road = Road(0, 2)
    /\ mat.result = Line(Vec3Zero, Vec3(ZZero, ZZero, <<4, 0>>))

\* C18: intersects(a, b) = intersects(b, a), and intersects(a, a) is false.
C18_SymmetricIrreflexive ==
    isect.called =>
        /\ isect.result = intersects(isect.b, isect.a)
        /\ isect.a = isect.b => ~isect.result

\* a segment of positive length was tested against itself
C18_Witness ==
    /\ isect.called
    /\ isect.a = isect.b
    /\ isect.a.start # isect.a.end
    /\ ~isect.result

====
